---------------------------- MODULE Spec2Model ----------------------------
(***************************************************************************)
(* A state-machine model of one call of                                    *)
(*     pypower.mosek_options.mosek_options(overrides=None, ppopt=None)     *)
(* (src/pypower/mosek_options.py).  The call is cut into the blocks the    *)
(* source itself marks with its "##" comments; each block is one action.   *)
(*                                                                         *)
(* Conventions.                                                            *)
(*  - Python values are tagged records: None is [kind |-> "None"], a       *)
(*    string is [kind |-> "str", s |-> ...], a ppopt options vector is     *)
(*    [kind |-> "ppopt", v |-> <fields>], a dict argument is               *)
(*    [kind |-> "dict", d |-> <function from keys to values>].             *)
(*  - A Python dict held in a local (opt, sc) is a TLA+ function whose     *)
(*    domain is a set of strings.                                          *)
(*  - The source uses `basestring` and indexes the result of dict.keys(),  *)
(*    so it is Python 2 code; Python 2 semantics are modelled.             *)
(*  - Numeric option values are modelled in integer units.                 *)
(*  - The two collaborators that are not part of the file, mosekopt (the   *)
(*    symbol table provider) and the user functions reached through        *)
(*    feval, are the environment: each may succeed or raise.               *)
(***************************************************************************)
EXTENDS Integers, Sequences, FiniteSets, TLC

VARIABLES
    overrides,      \* 1st argument of the call
    ppopt,          \* 2nd argument of the call
    mosekopt,       \* environment: how mosekopt answers the symbcon request
    userFunction,   \* environment: what a user function name evaluates to
    pc,             \* position of the call
    sc,             \* local sc  (symbolic constants)
    have_ppopt,     \* local have_ppopt
    fname,          \* local fname
    verbose,        \* local verbose
    opt,            \* local opt
    fevalCalls,     \* the calls made to feval so far, in order
    ret,            \* what the caller receives
    err             \* the exception that left the call, "" if none

vars == <<overrides, ppopt, mosekopt, userFunction, pc, sc, have_ppopt, fname, verbose,
          opt, fevalCalls, ret, err>>

---------------------------------------------------------------------------
(* Bounds of the model *)

\* the optional numeric vector fields range over 0..MaxField
MaxField == 1

\* the MOSEK_OPT field ranges over 0..MaxHookSelector
MaxHookSelector == 3

---------------------------------------------------------------------------
(* Python values *)

NoneValue == [kind |-> "None"]

Str(s) == [kind |-> "str", s |-> s]

Dict(d) == [kind |-> "dict", d |-> d]

EmptyDict == [k \in {} |-> 0]

\* isinstance(x, basestring)
IsString(x) == x.kind = "str"

\* x[...] is defined: None is not subscriptable
Subscriptable(x) == x.kind \in {"ppopt", "dict"}

\* d[k] = v  on a dict
StoreItem(d, k, v) == [x \in (DOMAIN d) \cup {k} |-> IF x = k THEN v ELSE d[x]]

\* a list holding the elements of S once each (the order of dict.keys())
RECURSIVE ListOf(_)
ListOf(S) ==
    IF S = {} THEN <<>>
    ELSE LET x == CHOOSE y \in S : TRUE IN <<x>> \o ListOf(S \ {x})

---------------------------------------------------------------------------
(* The environment *)

\* res['symbcon'] as MOSEK answers 'symbcon echo(0)': the optimizer codes
Symbcon ==
    [ MSK_OPTIMIZER_FREE                |-> 0,
      MSK_OPTIMIZER_INTPNT              |-> 1,
      MSK_OPTIMIZER_PRIMAL_SIMPLEX      |-> 4,
      MSK_OPTIMIZER_DUAL_SIMPLEX        |-> 5,
      MSK_OPTIMIZER_PRIMAL_DUAL_SIMPLEX |-> 6,
      MSK_OPTIMIZER_FREE_SIMPLEX        |-> 7,
      MSK_OPTIMIZER_CONCURRENT          |-> 10 ]

\* mosekopt either answers with the table or raises
MosekoptResponses == {"symbcon", "raises"}

\* what eval(funcName) finds: no such name, or a user function that returns
\* its argument, that builds a fresh dict (as the docstring's example does),
\* or that raises
UserFunctions == {"undefined", "identity", "fresh", "raises"}

\* the dict the docstring's example user function builds
FreshOptions == [MSK_IPAR_SIM_MAX_ITERATIONS |-> 5000000]

---------------------------------------------------------------------------
(* The inputs *)

AlgValues == {Symbcon[n] : n \in DOMAIN Symbcon} \cup {2, 11}

ViolationValues == {0, 500}

PpoptVectors ==
    [ VERBOSE           : {1},
      OPF_VIOLATION     : ViolationValues,
      MOSEK_LP_ALG      : AlgValues,
      MOSEK_MAX_IT      : 0..MaxField,
      MOSEK_GAP_TOL     : 0..MaxField,
      MOSEK_MAX_TIME    : 0..MaxField,
      MOSEK_NUM_THREADS : 0..MaxField,
      MOSEK_OPT         : 0..MaxHookSelector ]

FNames == {"my_user_options"}

PpoptArgs ==
    {NoneValue} \cup {Str(s) : s \in FNames}
                \cup {[kind |-> "ppopt", v |-> v] : v \in PpoptVectors}

OverridesArgs ==
    { NoneValue,
      Dict(EmptyDict),
      Dict([MSK_IPAR_OPTIMIZER |-> 5]),
      Dict([MSK_IPAR_INTPNT_MAX_ITERATIONS |-> 400, MSK_IPAR_LOG |-> 0]) }

---------------------------------------------------------------------------
(* The code, block by block *)

\* GetSymbcon with the failure swallowed: a built-in table stands in
GetSymbconSwallowed(response) == [raised |-> FALSE, sc |-> Symbcon]

\* r, res = mosekopt('symbcon echo(0)'); sc = res['symbcon']
GetSymbcon(response) ==
    IF response = "symbcon"
    THEN [raised |-> FALSE, sc |-> Symbcon]
    ELSE [raised |-> TRUE,  sc |-> EmptyDict]

\* SecondArg with the None test the right way round but the test of
\* ppopt['MOSEK_OPT'] dropped: every vector names a user function
SecondArgHookAlways(p) ==
    IF p # NoneValue
    THEN IF IsString(p)
         THEN [raised |-> FALSE, have_ppopt |-> FALSE, fname |-> p.s, verbose |-> 2]
         ELSE [raised     |-> FALSE,
               have_ppopt |-> TRUE,
               fname      |-> "mosek_user_options_#d",
               verbose    |-> p.v.VERBOSE]
    ELSE [raised |-> FALSE, have_ppopt |-> FALSE, fname |-> "", verbose |-> 2]

\* "second argument": the values of have_ppopt, fname and verbose it leaves,
\* or the exception raised by subscripting None
SecondArg(p) ==
    IF p = NoneValue
    THEN IF IsString(p)
         THEN [raised |-> FALSE, have_ppopt |-> FALSE, fname |-> p.s, verbose |-> 2]
         ELSE IF ~Subscriptable(p)
              THEN [raised |-> TRUE, have_ppopt |-> TRUE, fname |-> "", verbose |-> 2]
              ELSE [raised     |-> FALSE,
                    have_ppopt |-> TRUE,
                    fname      |-> IF p.v.MOSEK_OPT # 0
                                   THEN "mosek_user_options_#d" ELSE "",
                    verbose    |-> p.v.VERBOSE]
    ELSE [raised |-> FALSE, have_ppopt |-> FALSE, fname |-> "", verbose |-> 2]

\* the test of lines 99-105: alg is one of the seven optimizer codes
PermittedAlg(alg, table) ==
    \/ alg = table["MSK_OPTIMIZER_FREE"]
    \/ alg = table["MSK_OPTIMIZER_INTPNT"]
    \/ alg = table["MSK_OPTIMIZER_PRIMAL_SIMPLEX"]
    \/ alg = table["MSK_OPTIMIZER_DUAL_SIMPLEX"]
    \/ alg = table["MSK_OPTIMIZER_PRIMAL_DUAL_SIMPLEX"]
    \/ alg = table["MSK_OPTIMIZER_FREE_SIMPLEX"]
    \/ alg = table["MSK_OPTIMIZER_CONCURRENT"]

\* the divisor of OPF_VIOLATION
ViolationScale == 500

\* if v: d[k] = v
StoreIfNonZero(d, k, v) == IF v # 0 THEN StoreItem(d, k, v) ELSE d

\* the have_ppopt branch of "set default options for MOSEK"; OPF_VIOLATION
\* is given in multiples of the divisor, where Python's / is exact
VectorOptions(v, table) ==
    LET alg == v.MOSEK_LP_ALG
        o1  == StoreItem(EmptyDict, "MSK_IPAR_OPTIMIZER",
                         IF PermittedAlg(alg, table)
                         THEN alg ELSE table["MSK_OPTIMIZER_FREE"])
        o2  == StoreItem(o1, "MSK_DPAR_INTPNT_TOL_PFEAS",
                         v.OPF_VIOLATION \div ViolationScale)
        o3  == StoreIfNonZero(o2, "MSK_IPAR_INTPNT_MAX_ITERATIONS", v.MOSEK_MAX_IT)
        o4  == StoreIfNonZero(o3, "MSK_DPAR_INTPNT_TOL_REL_GAP", v.MOSEK_GAP_TOL)
        o5  == StoreIfNonZero(o4, "MSK_DPAR_OPTIMIZER_MAX_TIME", v.MOSEK_MAX_TIME)
    IN  StoreIfNonZero(o5, "MSK_IPAR_INTPNT_NUM_THREADS", v.MOSEK_NUM_THREADS)

\* "set default options for MOSEK": the value of opt it leaves
DefaultOptions(have, p, table) ==
    IF have
    THEN VectorOptions(p.v, table)
    ELSE StoreItem(EmptyDict, "MSK_IPAR_OPTIMIZER", table["MSK_OPTIMIZER_FREE"])

\* the arguments feval is given after the function's name
UserFunctionArgs(have, o, p) == IF have THEN <<o, p>> ELSE <<o>>

\* eval(funcName)(*args): the user function's result, or the exception
Feval(funcName, args) ==
    CASE userFunction = "undefined" -> [raised |-> TRUE,  err |-> "NameError", value |-> EmptyDict]
      [] userFunction = "raises"    -> [raised |-> TRUE,  err |-> "UserFunctionError", value |-> EmptyDict]
      [] userFunction = "identity"  -> [raised |-> FALSE, err |-> "", value |-> args[1]]
      [] userFunction = "fresh"     -> [raised |-> FALSE, err |-> "", value |-> FreshOptions]

\* StoreOverride as dict.setdefault would do it: a key opt holds is kept
StoreOverrideKeepExisting(o, name, value) ==
    IF name \in DOMAIN o THEN o ELSE StoreItem(o, name, value)

\* opt[names[k]] = overrides[names[k]]
StoreOverride(o, name, value) == StoreItem(o, name, value)

\* for k in range(len(names)): ...   from index k on
RECURSIVE OverrideLoop(_, _, _, _)
OverrideLoop(o, ov, names, k) ==
    IF k > Len(names) THEN o
    ELSE OverrideLoop(StoreOverride(o, names[k], ov[names[k]]), ov, names, k + 1)

\* "apply overrides": the value of opt it leaves
WithOverrides(o, ov) ==
    IF ov # NoneValue
    THEN OverrideLoop(o, ov.d, ListOf(DOMAIN ov.d), 1)
    ELSE o

\* the function ends without a return statement
ReturnValue(o) == NoneValue

---------------------------------------------------------------------------
(* The call as a state machine *)

Unset == [kind |-> "unset"]

Init ==
    /\ overrides \in OverridesArgs
    /\ ppopt \in PpoptArgs
    /\ mosekopt \in MosekoptResponses
    /\ userFunction \in UserFunctions
    /\ pc = "symbcon"
    /\ sc = EmptyDict
    /\ have_ppopt = FALSE
    /\ fname = ""
    /\ verbose = 2
    /\ opt = EmptyDict
    /\ fevalCalls = <<>>
    /\ ret = Unset
    /\ err = ""

\* an exception leaves the call: nothing is returned
Raise(e) ==
    /\ pc' = "raised"
    /\ err' = e

\* ## get symbolic constant names
GetSymbolicConstants ==
    /\ pc = "symbcon"
    /\ LET r == GetSymbcon(mosekopt) IN
         IF r.raised
         THEN Raise("MosekoptError") /\ UNCHANGED sc
         ELSE pc' = "second_arg" /\ sc' = r.sc /\ UNCHANGED err
    /\ UNCHANGED <<overrides, ppopt, mosekopt, userFunction, have_ppopt, fname, verbose,
                   opt, fevalCalls, ret>>

\* ## second argument
SecondArgument ==
    /\ pc = "second_arg"
    /\ LET r == SecondArg(ppopt) IN
         /\ have_ppopt' = r.have_ppopt
         /\ fname' = r.fname
         /\ verbose' = r.verbose
         /\ IF r.raised
            THEN Raise("TypeError")
            ELSE pc' = "defaults" /\ UNCHANGED err
    /\ UNCHANGED <<overrides, ppopt, mosekopt, userFunction, sc, opt, fevalCalls, ret>>

\* ##-----  set default options for MOSEK  -----
SetDefaultOptions ==
    /\ pc = "defaults"
    /\ opt' = DefaultOptions(have_ppopt, ppopt, sc)
    /\ pc' = "user_function"
    /\ UNCHANGED <<overrides, ppopt, mosekopt, userFunction, sc, have_ppopt, fname,
                   verbose, fevalCalls, ret, err>>

\* ##-----  call user function to modify defaults  -----
CallUserFunction ==
    /\ pc = "user_function"
    /\ IF fname # ""
       THEN LET args == UserFunctionArgs(have_ppopt, opt, ppopt)
                r    == Feval(fname, args)
            IN  /\ fevalCalls' = Append(fevalCalls, [funcName |-> fname, args |-> args])
                /\ IF r.raised
                   THEN Raise(r.err) /\ UNCHANGED opt
                   ELSE opt' = r.value /\ pc' = "overrides" /\ UNCHANGED err
       ELSE pc' = "overrides" /\ UNCHANGED <<opt, fevalCalls, err>>
    /\ UNCHANGED <<overrides, ppopt, mosekopt, userFunction, sc, have_ppopt, fname,
                   verbose, ret>>

\* ##-----  apply overrides  -----
ApplyOverrides ==
    /\ pc = "overrides"
    /\ opt' = WithOverrides(opt, overrides)
    /\ pc' = "return"
    /\ UNCHANGED <<overrides, ppopt, mosekopt, userFunction, sc, have_ppopt, fname,
                   verbose, fevalCalls, ret, err>>

\* the end of the function body
Return ==
    /\ pc = "return"
    /\ ret' = ReturnValue(opt)
    /\ pc' = "done"
    /\ UNCHANGED <<overrides, ppopt, mosekopt, userFunction, sc, have_ppopt, fname,
                   verbose, opt, fevalCalls, err>>

Next ==
    \/ GetSymbolicConstants
    \/ SecondArgument
    \/ SetDefaultOptions
    \/ CallUserFunction
    \/ ApplyOverrides
    \/ Return

Spec == Init /\ [][Next]_vars

---------------------------------------------------------------------------
(* Vocabulary of the properties *)

IsVector == ppopt.kind = "ppopt"

\* the call designates a user function: by name, or by a non-zero MOSEK_OPT
HookRequested == IsString(ppopt) \/ (IsVector /\ ppopt.v.MOSEK_OPT # 0)

\* the keys of the overrides argument
OverrideKeys == IF overrides = NoneValue THEN {} ELSE DOMAIN overrides.d

\* the override step has run
AfterOverrides == pc \in {"return", "done"}

\* the user function step is over and the call is still running or complete
AfterUserFunction == pc \in {"overrides", "return", "done"}

FreeCode == Symbcon["MSK_OPTIMIZER_FREE"]

PermittedCodes == {Symbcon[n] : n \in DOMAIN Symbcon}

\* the mapping that holds the default algorithm selector alone
DefaultMapping == [MSK_IPAR_OPTIMIZER |-> FreeCode]

\* the optional vector fields and the parameter each one sets
OptionalFields ==
    { <<"MOSEK_MAX_IT",      "MSK_IPAR_INTPNT_MAX_ITERATIONS">>,
      <<"MOSEK_GAP_TOL",     "MSK_DPAR_INTPNT_TOL_REL_GAP">>,
      <<"MOSEK_MAX_TIME",    "MSK_DPAR_OPTIMIZER_MAX_TIME">>,
      <<"MOSEK_NUM_THREADS", "MSK_IPAR_INTPNT_NUM_THREADS">> }

VectorDerivedKeys ==
    {"MSK_DPAR_INTPNT_TOL_PFEAS"} \cup {f[2] : f \in OptionalFields}

---------------------------------------------------------------------------
(* The properties *)

\* C1: once the override step has run, every key of overrides is in the
\* mapping with the value overrides gives it, whatever the selector and the
\* user function did before; nothing after the override step changes that.
C1_OverridesWin ==
    AfterOverrides =>
        \A k \in OverrideKeys : k \in DOMAIN opt /\ opt[k] = overrides.d[k]

\* C1 witness: a vector asks for interior-point, overrides asks for
\* dual-simplex, and the completed call holds dual-simplex.
C1_Witness ==
    /\ pc = "done"
    /\ IsVector
    /\ ppopt.v.MOSEK_LP_ALG = Symbcon["MSK_OPTIMIZER_INTPNT"]
    /\ overrides = Dict([MSK_IPAR_OPTIMIZER |-> Symbcon["MSK_OPTIMIZER_DUAL_SIMPLEX"]])
    /\ opt["MSK_IPAR_OPTIMIZER"] = Symbcon["MSK_OPTIMIZER_DUAL_SIMPLEX"]

\* C2: with ppopt = None and no overrides (and the symbol table available)
\* the call raises nothing, calls no user function, and ends with the
\* mapping that holds MSK_IPAR_OPTIMIZER = MSK_OPTIMIZER_FREE alone.
C2_NoneSelectorYieldsDefault ==
    (ppopt = NoneValue /\ overrides = NoneValue /\ mosekopt = "symbcon") =>
        /\ pc # "raised"
        /\ Len(fevalCalls) = 0
        /\ (pc = "done" => opt = DefaultMapping)

\* C3: for a vector with no user function and no override on the key, the
\* completed call holds MSK_IPAR_OPTIMIZER = MOSEK_LP_ALG when that is one
\* of the seven codes, and the free code otherwise; it never raises.
C3_AlgorithmFromVector ==
    (/\ IsVector
     /\ ppopt.v.MOSEK_OPT = 0
     /\ "MSK_IPAR_OPTIMIZER" \notin OverrideKeys
     /\ mosekopt = "symbcon") =>
        /\ pc # "raised"
        /\ (pc = "done" =>
              opt["MSK_IPAR_OPTIMIZER"] =
                  IF ppopt.v.MOSEK_LP_ALG \in PermittedCodes
                  THEN ppopt.v.MOSEK_LP_ALG ELSE FreeCode)

\* C4: for a vector with no user function and no override on these keys,
\* each of the four optional fields leaves its parameter absent when 0 and
\* sets it to the field's value otherwise.
C4_ZeroMeansAbsent ==
    (/\ IsVector
     /\ ppopt.v.MOSEK_OPT = 0
     /\ OverrideKeys \cap VectorDerivedKeys = {}
     /\ pc = "done") =>
        \A f \in OptionalFields :
            IF ppopt.v[f[1]] = 0
            THEN f[2] \notin DOMAIN opt
            ELSE f[2] \in DOMAIN opt /\ opt[f[2]] = ppopt.v[f[1]]

\* C5: for a vector whose MOSEK_OPT is non-zero, by the time the override
\* step is reached exactly one user function has been called, named
\* 'mosek_user_options_' followed by the field's value, with the
\* vector-derived mapping and the vector as arguments.
C5_VectorHookInvoked ==
    (IsVector /\ ppopt.v.MOSEK_OPT # 0 /\ AfterUserFunction) =>
        /\ Len(fevalCalls) = 1
        /\ fevalCalls[1].funcName = "mosek_user_options_" \o ToString(ppopt.v.MOSEK_OPT)
        /\ fevalCalls[1].args = <<VectorOptions(ppopt.v, Symbcon), ppopt>>

\* C6: for a string selector, by the time the override step is reached the
\* user function of that name has been called exactly once, with the default
\* mapping as its only argument.
C6_NamedHookInvoked ==
    (IsString(ppopt) /\ AfterUserFunction) =>
        fevalCalls = <<[funcName |-> ppopt.s, args |-> <<DefaultMapping>>]>>

\* C7: for a vector whose MOSEK_OPT is 0, feval is never called, and the
\* call raises only if the symbol table could not be obtained.
C7_NoHookWhenSelectorZero ==
    (IsVector /\ ppopt.v.MOSEK_OPT = 0) =>
        /\ Len(fevalCalls) = 0
        /\ (pc = "raised" => mosekopt = "raises")

\* C7 witness: such a call, with other fields non-zero and overrides
\* given, has completed without a call of feval.
C7_Witness ==
    /\ pc = "done"
    /\ IsVector
    /\ ppopt.v.MOSEK_OPT = 0
    /\ ppopt.v.MOSEK_MAX_IT # 0
    /\ ppopt.v.MOSEK_NUM_THREADS # 0
    /\ OverrideKeys # {}
    /\ Len(fevalCalls) = 0

\* C8: a call that completes hands its caller the mapping obtained after
\* the override step.
C8_ReturnsMapping ==
    pc = "done" => ret = Dict(opt)

C10_SymbolTableFailureAborts ==
    /\ (pc = "symbcon" =>
          opt = EmptyDict /\ Len(fevalCalls) = 0 /\ fname = "" /\ ~have_ppopt)
    /\ ((mosekopt = "raises" /\ pc # "symbcon") =>
          /\ pc = "raised"
          /\ err = "MosekoptError"
          /\ Len(fevalCalls) = 0
          /\ opt = EmptyDict
          /\ ret = Unset)
    /\ ((/\ IsVector
         /\ ppopt.v.MOSEK_LP_ALG \notin PermittedCodes
         /\ ppopt.v.MOSEK_OPT = 0
         /\ mosekopt = "symbcon") => pc # "raised")

\* C10 witness: the symbol table was unavailable for a call that designates
\* a user function and gives overrides; the call has raised.
C10_Witness ==
    /\ pc = "raised"
    /\ err = "MosekoptError"
    /\ mosekopt = "raises"
    /\ HookRequested
    /\ OverrideKeys # {}

===========================================================================
